---- MODULE Spec2Model ----
(***************************************************************************)
(* The sequencer of the order book: producers submit commands through a    *)
(* bounded ingress channel, one event loop dequeues them, numbers them,    *)
(* executes them on the book, fans the event out to the listeners and      *)
(* answers with a receipt.  A journal keeps the events and the replay      *)
(* engine rebuilds a book from a journal.                                  *)
(***************************************************************************)
EXTENDS Integers, Sequences, FiniteSets, TLC

(***************************************************************************)
(* Bounds of the model.                                                    *)
(***************************************************************************)
NumProducers == 2
MaxCmds == 3
Capacity == 2
MaxListeners == 2
MaxJournal == 3
MaxLevels == 2
MaxBookOrders == 2

Submissions == 1..MaxCmds
\* The inputs the producers and the environment draw from.
Prices == {1, 2}
TickSizes == {2}
LotSizes == {2}
CancelIds == {1}
\* add_order "adds or rejects": besides the tick and the lot size, the reasons
\* the book layer rejects an order for are its own. The orders with these ids
\* stand for the orders a book rejects whatever its sizes are.
RefusedIds == {9}
\* SystemTime::now() relative to the Unix epoch: -1 stands for a system time
\* before the epoch (duration_since fails), the others for nanosecond values.
ClockReadings == {-1, 1, 2}
\* The inputs of the callers of the journal, of the replay engine and of
\* snapshots_match.
Symbols == {"BTC/USD", "ETH/USD"}
JournalSeqs == {1, 2, 3}
FromSeqs == {0, 2, 4}
ToSeqs == {0, 2, 4}
SnapshotTimes == {0, 999}
Listings == {"ascending", "descending"}

(***************************************************************************)
(* Value types: command.rs, result.rs, event.rs, receipt.rs.               *)
(***************************************************************************)
\* OrderType: the variants the callers build. `quantity` is the quantity an
\* order shows (visible_quantity of an iceberg order), `hidden_quantity` is 0
\* for the orders that hide nothing.
Standard(id, price, quantity, side) ==
    [id |-> id, kind |-> "Standard", price |-> price, quantity |-> quantity,
     hidden_quantity |-> 0, side |-> side]

IcebergOrder(id, price, visible_quantity, hidden_quantity, side) ==
    [id |-> id, kind |-> "IcebergOrder", price |-> price,
     quantity |-> visible_quantity, hidden_quantity |-> hidden_quantity,
     side |-> side]

PostOnly(id, price, quantity, side) ==
    [id |-> id, kind |-> "PostOnly", price |-> price, quantity |-> quantity,
     hidden_quantity |-> 0, side |-> side]

NoOrder == Standard(0, 0, 0, "None")

AddOrder(order) == [tag |-> "AddOrder", order |-> order, order_id |-> 0]

CancelOrder(order_id) == [tag |-> "CancelOrder", order |-> NoOrder, order_id |-> order_id]

NoCommand == [tag |-> "None", order |-> NoOrder, order_id |-> 0]

OrderAdded(order_id) == [tag |-> "OrderAdded", order_id |-> order_id, error |-> "None"]

OrderCancelled(order_id) == [tag |-> "OrderCancelled", order_id |-> order_id, error |-> "None"]

\* SequencerResult::TradeExecuted, here with the id of the order that traded.
TradeExecuted(order_id) ==
    [tag |-> "TradeExecuted", order_id |-> order_id, error |-> "None"]

Rejected(error) == [tag |-> "Rejected", order_id |-> 0, error |-> error]

NoResult == [tag |-> "None", order_id |-> 0, error |-> "None"]

is_rejected(result) == result.tag = "Rejected"

is_success(result) == ~(result.tag = "Rejected")

SequencerEvent_new(sequence_num, timestamp_ns, command, result) ==
    [sequence_num |-> sequence_num, timestamp_ns |-> timestamp_ns,
     command |-> command, result |-> result]

NoEvent ==
    [sequence_num |-> 0, timestamp_ns |-> 0, command |-> NoCommand, result |-> NoResult]

\* A receipt that carries the counter after the increment.
SequencerReceipt_new_next(sequence_num, result) ==
    [sequence_num |-> sequence_num + 1, result |-> result]

SequencerReceipt_new(sequence_num, result) ==
    [sequence_num |-> sequence_num, result |-> result]

NoReceipt == [sequence_num |-> 0, result |-> NoResult]

(***************************************************************************)
(* The book the sequencer drives (crate::orderbook), through the interface *)
(* the sequencer uses: new, add_order, cancel_order.  A call returns the   *)
(* outcome and the book after the call.                                    *)
(***************************************************************************)
OrderBook_new(symbol) ==
    [symbol |-> symbol, tick_size |-> 0, lot_size |-> 0, orders |-> {}]

OrderBook_with_tick_size(symbol, tick) ==
    [symbol |-> symbol, tick_size |-> tick, lot_size |-> 0, orders |-> {}]

set_tick_size(b, tick) == [b EXCEPT !.tick_size = tick]

set_lot_size(b, lot) == [b EXCEPT !.lot_size = lot]

\* An add that looks at the quantity an order shows only.
add_order_visible_lot(b, order) ==
    IF b.tick_size # 0 /\ order.price % b.tick_size # 0
    THEN [outcome |-> "Err", error |-> "InvalidTickSize", book |-> b]
    ELSE IF b.lot_size # 0 /\ order.quantity % b.lot_size # 0
    THEN [outcome |-> "Err", error |-> "InvalidLotSize", book |-> b]
    ELSE IF order.id \in RefusedIds
    THEN [outcome |-> "Err", error |-> "Refused", book |-> b]
    ELSE [outcome |-> "Ok", error |-> "None",
          book |-> [b EXCEPT !.orders = @ \cup {order}]]

\* outcome "Ok" (the order rests in the book) or "Err" with the error kind:
\* the price against the tick size, every quantity of the order against the
\* lot size, and the reasons of RefusedIds.
add_order(b, order) ==
    IF b.tick_size # 0 /\ order.price % b.tick_size # 0
    THEN [outcome |-> "Err", error |-> "InvalidTickSize", book |-> b]
    ELSE IF b.lot_size # 0
            /\ (order.quantity % b.lot_size # 0 \/ order.hidden_quantity % b.lot_size # 0)
    THEN [outcome |-> "Err", error |-> "InvalidLotSize", book |-> b]
    ELSE IF order.id \in RefusedIds
    THEN [outcome |-> "Err", error |-> "Refused", book |-> b]
    ELSE [outcome |-> "Ok", error |-> "None",
          book |-> [b EXCEPT !.orders = @ \cup {order}]]

\* outcome "OkSome" (the order was in the book and is removed) or "OkNone".
cancel_order(b, order_id) ==
    IF \E o \in b.orders : o.id = order_id
    THEN [outcome |-> "OkSome", error |-> "None",
          book |-> [b EXCEPT !.orders = {o \in @ : o.id # order_id}]]
    ELSE [outcome |-> "OkNone", error |-> "None", book |-> b]

(***************************************************************************)
(* The snapshot of a book (crate::orderbook): the symbol, the time it was  *)
(* taken and the price levels of both sides.  A level carries its price,   *)
(* its visible quantity and the number of its orders.  The order in which  *)
(* a snapshot lists the levels of a side is not part of the interface: the *)
(* caller chooses `listing`.                                               *)
(***************************************************************************)
RECURSIVE total_quantity(_)
total_quantity(orders) ==
    IF orders = {} THEN 0
    ELSE LET o == CHOOSE x \in orders : TRUE
         IN  o.quantity + total_quantity(orders \ {o})

RECURSIVE ascending(_)
ascending(prices) ==
    IF prices = {} THEN <<>>
    ELSE LET m == CHOOSE x \in prices : \A y \in prices : x <= y
         IN  <<m>> \o ascending(prices \ {m})

reversed(q) == [i \in 1..Len(q) |-> q[Len(q) + 1 - i]]

level_at(b, side, price) ==
    LET at == {o \in b.orders : o.side = side /\ o.price = price}
    IN  [price |-> price, visible_quantity |-> total_quantity(at),
         order_count |-> Cardinality(at)]

levels_of(b, side, listing) ==
    LET up == ascending({o.price : o \in {x \in b.orders : x.side = side}})
        q == [i \in 1..Len(up) |-> level_at(b, side, up[i])]
    IN  IF listing = "ascending" THEN q ELSE reversed(q)

create_snapshot(b, now, listing) ==
    [symbol |-> b.symbol, timestamp |-> now,
     bids |-> levels_of(b, "Buy", listing), asks |-> levels_of(b, "Sell", listing)]

(***************************************************************************)
(* Journal: journal.rs.  The in-memory journal is the list of its events.  *)
(***************************************************************************)
None == [some |-> FALSE, value |-> 0]

Some(value) == [some |-> TRUE, value |-> value]

InMemoryJournal_new == <<>>

\* An append that puts the event in front of the stored ones.
append_front(events, event) == [outcome |-> "Ok", events |-> <<event>> \o events]

\* Journal::append: Ok(()) and the events after the push.
append(events, event) == [outcome |-> "Ok", events |-> Append(events, event)]

\* A read that leaves out the event whose sequence number is from_sequence.
read_from_after(events, from_sequence) ==
    SelectSeq(events, LAMBDA e : e.sequence_num > from_sequence)

\* Journal::read_from: the stored events at or after from_sequence, in the
\* order they are stored.
read_from(events, from_sequence) ==
    SelectSeq(events, LAMBDA e : e.sequence_num >= from_sequence)

read_range(events, from_sequence, to_sequence) ==
    SelectSeq(events, LAMBDA e : e.sequence_num >= from_sequence
                                    /\ e.sequence_num <= to_sequence)

len(events) == Len(events)

is_empty(events) == len(events) = 0

\* A last sequence number taken from the greatest one stored.
last_sequence_max(events) ==
    IF events = <<>> THEN None
    ELSE Some(CHOOSE n \in {events[i].sequence_num : i \in 1..Len(events)} :
                  \A i \in 1..Len(events) : events[i].sequence_num <= n)

\* Journal::last_sequence: `self.events.last().map(|e| e.sequence_num)`.
last_sequence(events) ==
    IF events = <<>> THEN None ELSE Some(events[Len(events)].sequence_num)

(***************************************************************************)
(* Replay engine: replay.rs.                                               *)
(***************************************************************************)
\* The caller of a failed replay receives no book.
NoBook == [symbol |-> "None", tick_size |-> 0, lot_size |-> 0, orders |-> {}]

\* Ok((book, last_seq)); `count` is the number of events the loop went
\* through and `calls` the invocations of the progress callback.
ReplayOk(b, last_seq, count, calls) ==
    [outcome |-> "Ok", error |-> "None", from_sequence |-> 0, last_sequence |-> 0,
     sequence_num |-> 0, source |-> "None",
     book |-> b, last_seq |-> last_seq, count |-> count, calls |-> calls]

\* Err(ReplayError::...): no book and no last sequence number.
ReplayErr(error, from_sequence, last_seq_of_journal, sequence_num, source, count, calls) ==
    [outcome |-> "Err", error |-> error, from_sequence |-> from_sequence,
     last_sequence |-> last_seq_of_journal, sequence_num |-> sequence_num,
     source |-> source,
     book |-> NoBook, last_seq |-> 0, count |-> count, calls |-> calls]

\* A replay that re-applies the commands the book had rejected.
apply_event_all(b, event) ==
    IF event.command.tag = "AddOrder"
    THEN LET r == add_order(b, event.command.order)
         IN  IF r.outcome = "Err"
             THEN [outcome |-> "Err", sequence_num |-> event.sequence_num,
                   source |-> r.error, book |-> b]
             ELSE [outcome |-> "Ok", sequence_num |-> 0, source |-> "None",
                   book |-> r.book]
    ELSE LET r == cancel_order(b, event.command.order_id)
         IN  IF r.outcome = "Err"
             THEN [outcome |-> "Err", sequence_num |-> event.sequence_num,
                   source |-> r.error, book |-> b]
             ELSE [outcome |-> "Ok", sequence_num |-> 0, source |-> "None",
                   book |-> r.book]

\* A replay that takes a cancel of an order the book does not hold for an
\* error.
apply_event_strict_cancel(b, event) ==
    IF is_rejected(event.result)
    THEN [outcome |-> "Ok", sequence_num |-> 0, source |-> "None", book |-> b]
    ELSE IF event.command.tag = "AddOrder"
    THEN LET r == add_order(b, event.command.order)
         IN  IF r.outcome = "Err"
             THEN [outcome |-> "Err", sequence_num |-> event.sequence_num,
                   source |-> r.error, book |-> b]
             ELSE [outcome |-> "Ok", sequence_num |-> 0, source |-> "None",
                   book |-> r.book]
    ELSE LET r == cancel_order(b, event.command.order_id)
         IN  IF r.outcome # "OkSome"
             THEN [outcome |-> "Err", sequence_num |-> event.sequence_num,
                   source |-> "OrderNotFound", book |-> b]
             ELSE [outcome |-> "Ok", sequence_num |-> 0, source |-> "None",
                   book |-> r.book]

\* A replay that applies the adds and leaves the cancels out.
apply_event_adds_only(b, event) ==
    IF is_rejected(event.result) \/ event.command.tag = "CancelOrder"
    THEN [outcome |-> "Ok", sequence_num |-> 0, source |-> "None", book |-> b]
    ELSE LET r == add_order(b, event.command.order)
         IN  IF r.outcome = "Err"
             THEN [outcome |-> "Err", sequence_num |-> event.sequence_num,
                   source |-> r.error, book |-> b]
             ELSE [outcome |-> "Ok", sequence_num |-> 0, source |-> "None",
                   book |-> r.book]

\* ReplayEngine::apply_event: Ok(()) and the book after the event, or the
\* OrderBookError of the event.
apply_event(b, event) ==
    IF is_rejected(event.result)
    THEN [outcome |-> "Ok", sequence_num |-> 0, source |-> "None", book |-> b]
    ELSE IF event.command.tag = "AddOrder"
    THEN LET r == add_order(b, event.command.order)
         IN  IF r.outcome = "Err"
             THEN [outcome |-> "Err", sequence_num |-> event.sequence_num,
                   source |-> r.error, book |-> b]
             ELSE [outcome |-> "Ok", sequence_num |-> 0, source |-> "None",
                   book |-> r.book]
    ELSE LET r == cancel_order(b, event.command.order_id)
         IN  IF r.outcome = "Err"
             THEN [outcome |-> "Err", sequence_num |-> event.sequence_num,
                   source |-> r.error, book |-> b]
             ELSE [outcome |-> "Ok", sequence_num |-> 0, source |-> "None",
                   book |-> r.book]

\* `for event in journal.read_from(from_sequence) { ... }`: apply the event
\* (`?` returns the error), then last_seq, count and the progress callback.
RECURSIVE replay_loop(_, _, _, _, _)
\* A loop that calls the progress callback before it counts the event.
replay_loop_progress_first(iter, b, last_seq, count, calls) ==
    IF iter = <<>> THEN ReplayOk(b, last_seq, count, calls)
    ELSE LET event == Head(iter)
             r == apply_event(b, event)
         IN  IF r.outcome = "Err"
             THEN ReplayErr("OrderBookError", 0, 0, r.sequence_num, r.source,
                            count, calls)
             ELSE replay_loop(Tail(iter), r.book, event.sequence_num, count + 1,
                              Append(calls, <<count, event.sequence_num>>))

\* A loop that goes on with the next event after an event the book refused.
replay_loop_ignore_errors(iter, b, last_seq, count, calls) ==
    IF iter = <<>> THEN ReplayOk(b, last_seq, count, calls)
    ELSE LET event == Head(iter)
             r == apply_event(b, event)
         IN  replay_loop(Tail(iter), r.book, event.sequence_num, count + 1,
                         Append(calls, <<count + 1, event.sequence_num>>))

\* A loop that ends the replay at the first rejected event.
replay_loop_stop_at_rejected(iter, b, last_seq, count, calls) ==
    IF iter = <<>> \/ is_rejected(Head(iter).result)
    THEN ReplayOk(b, last_seq, count, calls)
    ELSE LET event == Head(iter)
             r == apply_event(b, event)
         IN  IF r.outcome = "Err"
             THEN ReplayErr("OrderBookError", 0, 0, r.sequence_num, r.source,
                            count, calls)
             ELSE replay_loop(Tail(iter), r.book, event.sequence_num, count + 1,
                              Append(calls, <<count + 1, event.sequence_num>>))

replay_loop(iter, b, last_seq, count, calls) ==
    IF iter = <<>> THEN ReplayOk(b, last_seq, count, calls)
    ELSE LET event == Head(iter)
             r == apply_event(b, event)
         IN  IF r.outcome = "Err"
             THEN ReplayErr("OrderBookError", 0, 0, r.sequence_num, r.source,
                            count, calls)
             ELSE replay_loop(Tail(iter), r.book, event.sequence_num, count + 1,
                              Append(calls, <<count + 1, event.sequence_num>>))

\* A replay that goes through the events before it looks at the journal's
\* bounds.
replay_from_with_progress_late_checks(events, from_sequence, symbol) ==
    LET r == replay_loop(read_from(events, from_sequence), OrderBook_new(symbol),
                         0, 0, <<>>)
    IN  IF is_empty(events)
        THEN ReplayErr("EmptyJournal", 0, 0, 0, "None", r.count, r.calls)
        ELSE IF last_sequence(events).some /\ from_sequence > last_sequence(events).value
        THEN ReplayErr("InvalidSequence", from_sequence, last_sequence(events).value,
                       0, "None", r.count, r.calls)
        ELSE r

replay_from_with_progress(events, from_sequence, symbol) ==
    IF is_empty(events)
    THEN ReplayErr("EmptyJournal", 0, 0, 0, "None", 0, <<>>)
    ELSE IF last_sequence(events).some /\ from_sequence > last_sequence(events).value
    THEN ReplayErr("InvalidSequence", from_sequence,
                   IF last_sequence(events).some THEN last_sequence(events).value ELSE 0,
                   0, "None", 0, <<>>)
    ELSE replay_loop(read_from(events, from_sequence), OrderBook_new(symbol),
                     0, 0, <<>>)

\* replay_from: replay_from_with_progress with a callback that does nothing.
replay_from(events, from_sequence, symbol) ==
    [replay_from_with_progress(events, from_sequence, symbol) EXCEPT !.calls = <<>>]

\* A range that takes bounds in the wrong order for an invalid sequence.
replay_range_ordered_bounds(events, from_sequence, to_sequence) ==
    IF is_empty(events)
    THEN [outcome |-> "Err", error |-> "EmptyJournal", from_sequence |-> 0,
          last_sequence |-> 0, events |-> <<>>]
    ELSE IF from_sequence > to_sequence
            \/ (last_sequence(events).some
                  /\ from_sequence > last_sequence(events).value)
    THEN [outcome |-> "Err", error |-> "InvalidSequence",
          from_sequence |-> from_sequence,
          last_sequence |-> IF last_sequence(events).some
                            THEN last_sequence(events).value ELSE 0,
          events |-> <<>>]
    ELSE [outcome |-> "Ok", error |-> "None", from_sequence |-> 0, last_sequence |-> 0,
          events |-> read_range(events, from_sequence, to_sequence)]

\* Ok(events) or Err(ReplayError::...) without a list.
replay_range(events, from_sequence, to_sequence) ==
    IF is_empty(events)
    THEN [outcome |-> "Err", error |-> "EmptyJournal", from_sequence |-> 0,
          last_sequence |-> 0, events |-> <<>>]
    ELSE IF last_sequence(events).some /\ from_sequence > last_sequence(events).value
    THEN [outcome |-> "Err", error |-> "InvalidSequence",
          from_sequence |-> from_sequence,
          last_sequence |-> IF last_sequence(events).some
                            THEN last_sequence(events).value ELSE 0,
          events |-> <<>>]
    ELSE [outcome |-> "Ok", error |-> "None", from_sequence |-> 0, last_sequence |-> 0,
          events |-> read_range(events, from_sequence, to_sequence)]

\* The stable sort of the levels of a side by sign * price: sign 1 sorts by
\* ascending price (sort_by_key), sign -1 by descending price (sort_by).
insert_level(sorted, x, sign) ==
    LET pos == Cardinality({i \in 1..Len(sorted) :
                                sign * sorted[i].price <= sign * x.price})
    IN  SubSeq(sorted, 1, pos) \o <<x>> \o SubSeq(sorted, pos + 1, Len(sorted))

RECURSIVE sort_levels(_, _)
sort_levels(q, sign) ==
    IF q = <<>> THEN <<>>
    ELSE insert_level(sort_levels(SubSeq(q, 1, Len(q) - 1), sign), q[Len(q)], sign)

\* The length check and the pairwise comparison of two sorted sides.
levels_match(a, e) ==
    /\ Len(a) = Len(e)
    /\ \A i \in 1..Len(a) :
          a[i].price = e[i].price /\ a[i].visible_quantity = e[i].visible_quantity

\* A comparison that also wants the two snapshots taken at the same time.
snapshots_match_timed(actual, expected) ==
    IF actual.symbol # expected.symbol \/ actual.timestamp # expected.timestamp
    THEN FALSE
    ELSE IF ~levels_match(sort_levels(actual.bids, -1), sort_levels(expected.bids, -1))
    THEN FALSE
    ELSE levels_match(sort_levels(actual.asks, 1), sort_levels(expected.asks, 1))

snapshots_match(actual, expected) ==
    IF actual.symbol # expected.symbol THEN FALSE
    ELSE IF ~levels_match(sort_levels(actual.bids, -1), sort_levels(expected.bids, -1))
    THEN FALSE
    ELSE levels_match(sort_levels(actual.asks, 1), sort_levels(expected.asks, 1))

\* ReplayEngine::verify: Ok(bool) or the error of the replay. The snapshot of
\* the replayed book is taken at `now` and lists its levels as `listing`.
verify(events, expected_snapshot, now, listing) ==
    LET r == replay_from(events, 0, expected_snapshot.symbol)
    IN  IF r.outcome = "Err"
        THEN [outcome |-> "Err", error |-> r.error, value |-> FALSE, count |-> r.count]
        ELSE [outcome |-> "Ok", error |-> "None",
              value |-> snapshots_match(create_snapshot(r.book, now, listing),
                                        expected_snapshot),
              count |-> r.count]

(***************************************************************************)
(* Sequencer: core.rs.                                                     *)
(***************************************************************************)
VARIABLES
    book,             \* Sequencer.book
    sequence,         \* Sequencer.sequence
    command_tx,       \* Sequencer.command_tx is alive
    chan,             \* the messages buffered in the mpsc channel
    event_listeners,  \* Sequencer.event_listeners
    pc,               \* where the event loop stands
    cur,              \* the locals of the loop iteration under way
    li,               \* the index of the next listener of the fan-out
    seen,             \* the journal each listener appends the events it gets to
    slot,             \* the oneshot of each submission
    handles,          \* the number of sender clones the producers hold
    sending,          \* the messages of the producers that wait for room
    nsub,             \* the number of submissions made
    admitted,         \* the messages in the order the channel took them
    emitted,          \* the events in the order the loop built them
    applied,          \* the submissions in the order execute_command ran
    outcome,          \* what the submission of each producer came back with
    journal,          \* InMemoryJournal.events of a journal a caller builds
    ret               \* the last call on that journal or on snapshots, with its result

vars == <<book, sequence, command_tx, chan, event_listeners, pc, cur, li, seen,
          slot, handles, sending, nsub, admitted, emitted, applied,
          outcome, journal, ret>>

\* The value a submission has come back with: nothing yet, Ok(receipt),
\* Err(SequencerError::Shutdown), or the producer dropped the future.
NoOutcome == [tag |-> "None", receipt |-> NoReceipt]

SubmitOk(receipt) == [tag |-> "Ok", receipt |-> receipt]

SubmitErr(error) == [tag |-> error, receipt |-> NoReceipt]

Abandoned == [tag |-> "Abandoned", receipt |-> NoReceipt]

\* The pending future of Sequencer::submit(&self): it borrows the sequencer
\* for as long as it lives.
Borrowing == [tag |-> "Borrowing", receipt |-> NoReceipt]

\* A future of Sequencer::submit is alive: the sequencer can be neither moved
\* (spawn, drop) nor borrowed mutably (add_listener).
Borrowed == \E s \in Submissions : outcome[s] = Borrowing

NoRet == [op |-> "None"]

\* `clock` is what SystemTime::now() read for the event.
NoCur == [event |-> NoEvent, reply |-> 0, clock |-> 0]

\* Sequencer::with_capacity: the state after construction. The caller builds
\* the book: a plain one, or one with a tick size.
Init ==
    /\ book \in {OrderBook_new("BTC/USD")}
                \cup {OrderBook_with_tick_size("BTC/USD", t) : t \in TickSizes}
    /\ sequence = 1
    /\ command_tx = TRUE
    /\ chan = <<>>
    /\ event_listeners = <<>>
    /\ pc = "new"
    /\ cur = NoCur
    /\ li = 1
    /\ seen = [l \in 1..MaxListeners |-> <<>>]
    /\ slot = [s \in Submissions |-> NoReceipt]
    /\ handles = 0
    /\ sending = {}
    /\ nsub = 0
    /\ admitted = <<>>
    /\ emitted = <<>>
    /\ applied = <<>>
    /\ outcome = [s \in Submissions |-> NoOutcome]
    /\ journal = InMemoryJournal_new
    /\ ret = NoRet

\* Sequencer::add_listener: before spawn only (spawn consumes the sequencer).
add_listener ==
    /\ pc = "new"
    /\ ~Borrowed
    /\ Len(event_listeners) < MaxListeners
    /\ event_listeners' = Append(event_listeners, Len(event_listeners) + 1)
    /\ UNCHANGED <<book, sequence, command_tx, chan, pc, cur, li, seen, slot,
                   handles, sending, nsub, admitted, emitted, applied>>
    /\ UNCHANGED <<outcome, journal, ret>>

\* The producers that hold a handle and are not suspended in a send.
IdleProducers ==
    handles - Cardinality({msg \in sending : outcome[msg.reply] # Borrowing})

\* Sequencer::sender before spawn, or a clone of a handle a producer holds:
\* one more sender of the channel.
sender ==
    /\ handles < NumProducers
    /\ pc = "new" \/ handles > 0
    /\ handles' = handles + 1
    /\ UNCHANGED <<book, sequence, command_tx, chan, event_listeners, pc, cur, li,
                   seen, slot, sending, nsub, admitted, emitted, applied>>
    /\ UNCHANGED <<outcome, journal, ret>>

\* A spawn that starts the loop on a channel of its own, without the
\* commands sent so far.
spawn_fresh_channel ==
    /\ pc = "new"
    /\ ~Borrowed
    /\ pc' = "recv"
    /\ chan' = <<>>
    /\ UNCHANGED <<book, sequence, command_tx, event_listeners, cur, li, seen,
                   slot, handles, sending, nsub, admitted, emitted, applied>>
    /\ UNCHANGED <<outcome, journal, ret>>

\* Sequencer::spawn: takes command_rx and starts run_loop on a task that owns
\* the sequencer.
spawn ==
    /\ pc = "new"
    /\ ~Borrowed
    /\ pc' = "recv"
    /\ UNCHANGED <<book, sequence, command_tx, chan, event_listeners, cur, li, seen,
                   slot, handles, sending, nsub, admitted, emitted, applied>>
    /\ UNCHANGED <<outcome, journal, ret>>

(***************************************************************************)
(* Producers: the pattern of the callers of sender() and of submit: send   *)
(* (command, tx) on the channel, then await rx.                            *)
(***************************************************************************)
\* The side of the orders submitted at a price: buys below the top price,
\* sells at it, so that the orders of a run never cross.
side_at(price) == IF \A pr \in Prices : pr <= price THEN "Sell" ELSE "Buy"

\* The commands a producer may submit as submission n. Every order gets a
\* fresh id (OrderId::new_uuid()); a cancel names an id that an earlier order
\* may or may not have.
Commands(n) ==
    {AddOrder(Standard(n, pr, 1, side_at(pr))) : pr \in Prices}
    \cup {CancelOrder(i) : i \in CancelIds}

\* A channel that never refuses a message.
HasRoom_unbounded == TRUE

\* The bounded channel has a free permit.
HasRoom == Len(chan) < Capacity

\* A channel that hands the newest message out first.
mpsc_push_lifo(q, msg) == <<msg>> \o q

\* The channel buffers the message behind those it already holds.
mpsc_push(q, msg) == Append(q, msg)

\* A receive that leaves the message in the channel.
mpsc_pop_peek(q) == q

\* mpsc::Receiver::recv takes the oldest message out of the channel.
mpsc_pop(q) == Tail(q)

\* mpsc::Sender::send((command, tx)): the message enters the channel when
\* there is room; otherwise the sender waits for room. The producer keeps rx
\* and may await it at any time.
send(command) ==
    /\ IdleProducers > 0
    /\ pc # "done"
    /\ nsub < MaxCmds
    /\ nsub' = nsub + 1
    /\ LET msg == [command |-> command, reply |-> nsub + 1]
       IN  IF HasRoom
           THEN /\ chan' = mpsc_push(chan, msg)
                /\ admitted' = Append(admitted, msg)
                /\ UNCHANGED sending
           ELSE /\ sending' = sending \cup {msg}
                /\ UNCHANGED <<chan, admitted>>
    /\ UNCHANGED <<book, sequence, command_tx, event_listeners, pc, cur, li, seen,
                   slot, handles, emitted, applied>>
    /\ UNCHANGED <<outcome, journal, ret>>

\* A sender that waited for room gets its permit.
send_resume(msg) ==
    /\ msg \in sending
    /\ pc # "done"
    /\ HasRoom
    /\ chan' = mpsc_push(chan, msg)
    /\ admitted' = Append(admitted, msg)
    /\ sending' = sending \ {msg}
    /\ UNCHANGED <<book, sequence, command_tx, event_listeners, pc, cur, li, seen,
                   slot, handles, nsub, emitted, applied>>
    /\ UNCHANGED <<outcome, journal, ret>>

\* drop(sender): a producer gives its handle up.
drop_sender ==
    /\ IdleProducers > 0
    /\ handles' = handles - 1
    /\ UNCHANGED <<book, sequence, command_tx, chan, event_listeners, pc, cur, li,
                   seen, slot, sending, nsub, admitted, emitted, applied>>
    /\ UNCHANGED <<outcome, journal, ret>>

(***************************************************************************)
(* The event loop.                                                         *)
(***************************************************************************)
\* A counter that is read and never advanced.
fetch_add_stuck(seq) == seq

\* AtomicU64::fetch_add(1): the value of the counter after the call (the call
\* returns the value before it). The counter is 64 bits wide; the model's
\* runs stay far below 2^64.
fetch_add(seq) == seq + 1

\* A timestamp that takes the reading of the clock as it is.
nanos_since_epoch_raw(now) == now

\* nanos_since_epoch: the wall clock, or 0 when the system time is before the
\* epoch.
nanos_since_epoch(now) == IF now < 0 THEN 0 ELSE now

\* An add that reports the order the book took as a trade.
execute_add_order_trade(b, order) ==
    LET r == add_order(b, order)
    IN  IF r.outcome = "Ok"
        THEN [result |-> TradeExecuted(order.id), book |-> r.book]
        ELSE [result |-> Rejected(r.error), book |-> r.book]

execute_add_order(b, order) ==
    LET r == add_order(b, order)
    IN  IF r.outcome = "Ok"
        THEN [result |-> OrderAdded(order.id), book |-> r.book]
        ELSE [result |-> Rejected(r.error), book |-> r.book]

\* A cancel that reports an order the book does not hold as cancelled.
execute_cancel_order_lenient(b, order_id) ==
    LET r == cancel_order(b, order_id)
    IN  IF r.outcome \in {"OkSome", "OkNone"}
        THEN [result |-> OrderCancelled(order_id), book |-> r.book]
        ELSE [result |-> Rejected(r.error), book |-> r.book]

\* A cancel that reports the order it removed as not found.
execute_cancel_order_swapped(b, order_id) ==
    LET r == cancel_order(b, order_id)
    IN  IF r.outcome = "OkSome"
        THEN [result |-> Rejected("OrderNotFound"), book |-> r.book]
        ELSE [result |-> Rejected(r.error), book |-> r.book]

execute_cancel_order(b, order_id) ==
    LET r == cancel_order(b, order_id)
    IN  IF r.outcome = "OkSome"
        THEN [result |-> OrderCancelled(order_id), book |-> r.book]
        ELSE IF r.outcome = "OkNone"
        THEN [result |-> Rejected("OrderNotFound"), book |-> r.book]
        ELSE [result |-> Rejected(r.error), book |-> r.book]

execute_command(b, command) ==
    IF command.tag = "AddOrder"
    THEN execute_add_order(b, command.order)
    ELSE execute_cancel_order(b, command.order_id)

\* A loop that goes from the event to the reply and leaves the listeners out.
fan_out_start_skipped(listeners) == "reply"

\* A loop that is back at recv() for the next command right after it has
\* executed one.
fan_out_start_recv(listeners) == "recv"

\* After the event is built the loop enters `for listener in
\* &self.event_listeners`; with no listener it is at the reply at once.
fan_out_start(listeners) == IF listeners = <<>> THEN "reply" ELSE "listeners"

\* A sender of the channel is alive: recv() waits instead of returning None.
\* The task that runs the loop owns the sequencer, command_tx included.
SendersAlive == command_tx \/ handles > 0

\* One turn of `while let Some((command, reply)) = command_rx.recv().await`
\* up to the event: the sequence number, the timestamp, the execution on the
\* book and the event; or the end of the loop when recv() returns None.
run_loop_recv(now) ==
    /\ pc = "recv"
    /\ IF chan # <<>>
       THEN LET msg == Head(chan)
                seq == sequence
                ts == nanos_since_epoch(now)
                x == execute_command(book, msg.command)
                event == SequencerEvent_new(seq, ts, msg.command, x.result)
            IN  /\ chan' = mpsc_pop(chan)
                /\ sequence' = fetch_add(sequence)
                /\ book' = x.book
                /\ cur' = [event |-> event, reply |-> msg.reply, clock |-> now]
                /\ emitted' = Append(emitted, event)
                /\ applied' = Append(applied, msg.reply)
                /\ li' = 1
                /\ pc' = fan_out_start(event_listeners)
                /\ UNCHANGED command_tx
       ELSE /\ ~SendersAlive
            /\ pc' = "done"
            /\ command_tx' = FALSE
            /\ UNCHANGED <<book, sequence, chan, cur, li, emitted, applied>>
    /\ UNCHANGED <<event_listeners, seen, slot, handles, sending, nsub, admitted>>
    /\ UNCHANGED <<outcome, journal, ret>>

\* A fan-out that walks the listeners from the last one registered.
listener_at_reversed(listeners, i) == listeners[Len(listeners) + 1 - i]

\* The listener the fan-out calls at its i-th step.
listener_at(listeners, i) == listeners[i]

\* `for listener in &self.event_listeners { listener(&event) }`, one call.
run_loop_listener ==
    /\ pc = "listeners"
    /\ seen' = [seen EXCEPT ![listener_at(event_listeners, li)] =
                                append(@, cur.event).events]
    /\ li' = li + 1
    /\ pc' = IF li = Len(event_listeners) THEN "reply" ELSE "listeners"
    /\ UNCHANGED <<book, sequence, command_tx, chan, event_listeners, cur, slot,
                   handles, sending, nsub, admitted, emitted, applied>>
    /\ UNCHANGED <<outcome, journal, ret>>

\* A loop that gives up after a command the book refused.
loop_after_abort_on_rejected(event) ==
    IF is_rejected(event.result) THEN "done" ELSE "recv"

\* The body of the while loop has no break, return or `?`: after the reply
\* the loop is back at recv(), whatever the result was.
loop_after(event) == "recv"

\* A send that stores the receipt although the receiving half is gone.
oneshot_send_forced(slots, reply, receipt, rx_dropped) ==
    [slots EXCEPT ![reply] = receipt]

\* oneshot::Sender::send: the receipt reaches the slot unless the producer
\* has dropped the receiving half; then send returns Err and the receipt is
\* dropped.
oneshot_send(slots, reply, receipt, rx_dropped) ==
    IF rx_dropped THEN slots ELSE [slots EXCEPT ![reply] = receipt]

\* `let _ = reply.send(SequencerReceipt::new(seq, event.result))`.
run_loop_reply ==
    /\ pc = "reply"
    /\ slot' = oneshot_send(slot, cur.reply,
                    SequencerReceipt_new(cur.event.sequence_num, cur.event.result),
                    outcome[cur.reply] = Abandoned)
    /\ cur' = NoCur
    /\ pc' = loop_after(cur.event)
    /\ UNCHANGED <<book, sequence, command_tx, chan, event_listeners, li, seen,
                   handles, sending, nsub, admitted, emitted, applied>>
    /\ UNCHANGED <<outcome, journal, ret>>

\* SequencerHandle::wait completes when the task of the loop has ended.
WaitCompleted == pc = "done"

Next ==
    \/ add_listener
    \/ spawn
    \/ sender
    \/ \E command \in Commands(nsub + 1) : send(command)
    \/ \E msg \in sending : send_resume(msg)
    \/ drop_sender
    \/ \E now \in ClockReadings : run_loop_recv(now)
    \/ run_loop_listener
    \/ run_loop_reply

Spec == Init /\ [][Next]_vars

\* The tokio runtime runs a task that is ready: the loop takes a message that
\* is in the channel, and goes through the listeners and the reply.
LoopStep == (\E now \in ClockReadings : run_loop_recv(now)) \/ run_loop_listener \/ run_loop_reply

LiveSpec == Init /\ [][Next]_vars /\ WF_vars(LoopStep)

(***************************************************************************)
(* Properties.                                                             *)
(***************************************************************************)
Range(q) == {q[i] : i \in 1..Len(q)}

Count(q, x) == Cardinality({i \in 1..Len(q) : q[i] = x})

Front(q) == SubSeq(q, 1, Len(q) - 1)

\* The submissions whose message is in the channel.
InChannel == {chan[i].reply : i \in 1..Len(chan)}

\* The submissions the channel has admitted.
Admitted == {admitted[i].reply : i \in 1..Len(admitted)}

(***************************************************************************)
(* The life of a submission and of the channel: the result a producer gets *)
(* back, a producer that drops its pending submission, and the receiver    *)
(* half of the channel going away.                                         *)
(***************************************************************************)
\* The reply sender of the submission was destroyed without a receipt: the
\* message was in the channel when the receiver was dropped.
ReplyDropped(s) == s \in Admitted /\ s \notin InChannel /\ s \notin Range(applied)

\* An await on the reply slot that takes a closed slot for an answer.
rx_await_unchecked(slots, s) == SubmitOk(slots[s])

\* `rx.await.map_err(|_| SequencerError::Shutdown)`: the receipt in the slot,
\* or Shutdown when the sender half is gone and left none.
rx_await(slots, s) ==
    IF slots[s] # NoReceipt THEN SubmitOk(slots[s]) ELSE SubmitErr("Shutdown")

\* The receiver of the ingress channel is dropped: the sequencer is dropped
\* before spawn, or the runtime cancels the task of the loop where it awaits
\* recv(). The messages still in the channel are destroyed with it.
drop_receiver ==
    /\ pc \in {"new", "recv"}
    /\ pc = "new" => ~Borrowed
    /\ pc' = "done"
    /\ command_tx' = FALSE
    /\ chan' = <<>>
    /\ UNCHANGED <<book, sequence, event_listeners, cur, li, seen, slot, handles,
                   sending, nsub, admitted, emitted, applied, outcome, journal, ret>>

\* `send((command, tx)).await.map_err(|_| SequencerError::Shutdown)?` on a
\* channel whose receiver is gone: the submission fails at once.
send_closed(command) ==
    /\ IdleProducers > 0
    /\ pc = "done"
    /\ nsub < MaxCmds
    /\ nsub' = nsub + 1
    /\ outcome' = [outcome EXCEPT ![nsub + 1] = SubmitErr("Shutdown")]
    /\ UNCHANGED <<book, sequence, command_tx, chan, event_listeners, pc, cur, li,
                   seen, slot, handles, sending, admitted, emitted, applied,
                   journal, ret>>

\* A sender that waited for room when the receiver went away.
send_resume_closed(msg) ==
    /\ msg \in sending
    /\ pc = "done"
    /\ sending' = sending \ {msg}
    /\ outcome' = [outcome EXCEPT ![msg.reply] = SubmitErr("Shutdown")]
    /\ UNCHANGED <<book, sequence, command_tx, chan, event_listeners, pc, cur, li,
                   seen, slot, handles, nsub, admitted, emitted, applied,
                   journal, ret>>

\* Sequencer::submit(&self, command) up to its first await that does not
\* complete: the method exists on the sequencer only, which spawn consumes,
\* so it is called before spawn. It sends (command, tx) through the
\* sequencer's own command_tx, waiting for room like any sender, and then
\* awaits rx (submit_return).
submit(command) ==
    /\ pc = "new"
    /\ command_tx
    /\ nsub < MaxCmds
    /\ nsub' = nsub + 1
    /\ outcome' = [outcome EXCEPT ![nsub + 1] = Borrowing]
    /\ LET msg == [command |-> command, reply |-> nsub + 1]
       IN  IF HasRoom
           THEN /\ chan' = mpsc_push(chan, msg)
                /\ admitted' = Append(admitted, msg)
                /\ UNCHANGED sending
           ELSE /\ sending' = sending \cup {msg}
                /\ UNCHANGED <<chan, admitted>>
    /\ UNCHANGED <<book, sequence, command_tx, event_listeners, pc, cur, li, seen,
                   slot, handles, emitted, applied, journal, ret>>

\* The await of the reply slot completes.
submit_return(s) ==
    /\ s \in Admitted
    /\ outcome[s] \in {NoOutcome, Borrowing}
    /\ slot[s] # NoReceipt \/ ReplyDropped(s)
    /\ outcome' = [outcome EXCEPT ![s] = rx_await(slot, s)]
    /\ UNCHANGED <<book, sequence, command_tx, chan, event_listeners, pc, cur, li,
                   seen, slot, handles, sending, nsub, admitted, emitted, applied,
                   journal, ret>>

\* A dropped submission whose command stays in line for the channel.
abandon_keep_waiting(s) ==
    /\ s \in 1..nsub
    /\ outcome[s] \in {NoOutcome, Borrowing}
    /\ outcome' = [outcome EXCEPT ![s] = Abandoned]
    /\ UNCHANGED <<book, sequence, command_tx, chan, event_listeners, pc, cur, li,
                   seen, slot, handles, sending, nsub, admitted, emitted, applied,
                   journal, ret>>

\* The producer drops its pending submission: while it waits for room the
\* command goes with it, after the channel took the command only the
\* receiving half of the reply slot goes.
abandon(s) ==
    /\ s \in 1..nsub
    /\ outcome[s] \in {NoOutcome, Borrowing}
    /\ outcome' = [outcome EXCEPT ![s] = Abandoned]
    /\ sending' = {msg \in sending : msg.reply # s}
    /\ UNCHANGED <<book, sequence, command_tx, chan, event_listeners, pc, cur, li,
                   seen, slot, handles, nsub, admitted, emitted, applied,
                   journal, ret>>

\* The runs of this part start from a plain book, read one clock value and
\* submit an add at one price or a cancel: the timestamp and the price play
\* no part in what becomes of a submission.
LifecycleInit == Init /\ book = OrderBook_new("BTC/USD")

LifecycleClock == {1}

LifecycleCommands(n) ==
    {AddOrder(Standard(n, 1, 1, side_at(1)))}
    \cup {CancelOrder(i) : i \in CancelIds}

LifecycleNext ==
    \/ add_listener
    \/ spawn
    \/ sender
    \/ \E command \in LifecycleCommands(nsub + 1) : send(command)
    \/ \E msg \in sending : send_resume(msg)
    \/ drop_sender
    \/ \E now \in LifecycleClock : run_loop_recv(now)
    \/ run_loop_listener
    \/ run_loop_reply
    \/ drop_receiver
    \/ \E command \in LifecycleCommands(nsub + 1) : send_closed(command)
    \/ \E msg \in sending : send_resume_closed(msg)
    \/ \E command \in LifecycleCommands(nsub + 1) : submit(command)
    \/ \E s \in Submissions : submit_return(s)
    \/ \E s \in Submissions : abandon(s)

LifecycleSpec == LifecycleInit /\ [][LifecycleNext]_vars

\* The scheduling of the runs above: the runtime runs the task of the loop
\* when it is ready, wakes a sender that waits for room when there is room
\* and a submitter when its reply slot is settled; and the owner of the
\* sequencer spawns it as soon as it may.
LifecycleLoopStep ==
    (\E now \in LifecycleClock : run_loop_recv(now)) \/ run_loop_listener \/ run_loop_reply

LifecycleLiveSpec ==
    /\ LifecycleInit /\ [][LifecycleNext]_vars
    /\ WF_vars(LifecycleLoopStep)
    /\ WF_vars(spawn)
    /\ WF_vars(\E msg \in sending : send_resume(msg))
    /\ \A s \in Submissions : WF_vars(submit_return(s))

(***************************************************************************)
(* The sequencer with journaling listeners whose journals are replayed:    *)
(* the runs of the sequencer with one clock value, since a replay does not *)
(* look at the timestamps of the events.                                   *)
(***************************************************************************)
CycleClock == {1}

CycleNext ==
    \/ add_listener
    \/ spawn
    \/ sender
    \/ \E command \in Commands(nsub + 1) : send(command)
    \/ \E msg \in sending : send_resume(msg)
    \/ drop_sender
    \/ \E now \in CycleClock : run_loop_recv(now)
    \/ run_loop_listener
    \/ run_loop_reply

CycleSpec == Init /\ [][CycleNext]_vars

\* The same runs under the scheduling of the runtime: the task of the loop
\* runs when it is ready.
CycleLoopStep ==
    (\E now \in CycleClock : run_loop_recv(now)) \/ run_loop_listener \/ run_loop_reply

CycleLiveSpec == Init /\ [][CycleNext]_vars /\ WF_vars(CycleLoopStep)

(***************************************************************************)
(* The producers that take their handles with sender() and send before the *)
(* sequencer is spawned; a send that found the channel full completes      *)
(* when the loop has made room.                                            *)
(***************************************************************************)
PreSpawnNext ==
    \/ add_listener
    \/ spawn
    \/ sender
    \/ /\ pc = "new"
       /\ \E command \in Commands(nsub + 1) : send(command)
    \/ \E msg \in sending : send_resume(msg)
    \/ drop_sender
    \/ \E now \in CycleClock : run_loop_recv(now)
    \/ run_loop_listener
    \/ run_loop_reply

PreSpawnSpec == Init /\ [][PreSpawnNext]_vars

(***************************************************************************)
(* The callers of the journal and of the replay engine: a journal built by *)
(* appends, in any order of sequence numbers, and calls on it.             *)
(***************************************************************************)
seq_vars == <<book, sequence, command_tx, chan, event_listeners, pc, cur, li, seen,
              slot, handles, sending, nsub, admitted, emitted, applied, outcome>>

JournalOrders ==
    {Standard(1, 1, 1, "Buy"), Standard(2, 2, 1, "Sell")}

\* An order a fresh book refuses, in an event that says it was added.
RefusedOrders == {Standard(i, 1, 1, "Buy") : i \in RefusedIds}

\* The events a caller appends: adds that succeeded, and a cancel that
\* succeeded or was rejected.
JournalEvents ==
    {SequencerEvent_new(n, 0, AddOrder(o), OrderAdded(o.id)) :
        n \in JournalSeqs, o \in JournalOrders \cup RefusedOrders}
    \cup {SequencerEvent_new(n, 0, CancelOrder(1), r) :
            n \in JournalSeqs, r \in {OrderCancelled(1), Rejected("OrderNotFound")}}

\* The snapshots a caller of verify expects.
ExpectedSnapshots ==
    {create_snapshot(OrderBook_new(sym), 999, "ascending") : sym \in Symbols}
    \cup {create_snapshot([OrderBook_new("BTC/USD") EXCEPT !.orders = {o}],
                          999, "ascending") : o \in JournalOrders}

ReplayInit == Init /\ book = OrderBook_new("BTC/USD")

\* append takes the journal by `&mut self`: no result that borrows it is
\* alive. The caller gets the Result of the append.
journal_append(event) ==
    /\ ret = NoRet \/ ret.op = "append"
    /\ len(journal) < MaxJournal
    /\ journal' = append(journal, event).events
    /\ ret' = [op |-> "append", event |-> event,
               result |-> append(journal, event).outcome]
    /\ UNCHANGED seq_vars

\* The caller is done with the result of its last call.
drop_result ==
    /\ ret # NoRet
    /\ ret' = NoRet
    /\ UNCHANGED <<seq_vars, journal>>

read_from_call(from_sequence) ==
    /\ ret = NoRet
    /\ ret' = [op |-> "read_from", from_sequence |-> from_sequence,
               events |-> read_from(journal, from_sequence)]
    /\ UNCHANGED <<seq_vars, journal>>

read_range_call(from_sequence, to_sequence) ==
    /\ ret = NoRet
    /\ ret' = [op |-> "read_range", from_sequence |-> from_sequence,
               to_sequence |-> to_sequence,
               events |-> read_range(journal, from_sequence, to_sequence)]
    /\ UNCHANGED <<seq_vars, journal>>

replay_from_call(from_sequence, symbol) ==
    /\ ret = NoRet
    /\ ret' = [op |-> "replay_from", from_sequence |-> from_sequence,
               symbol |-> symbol,
               result |-> replay_from(journal, from_sequence, symbol)]
    /\ UNCHANGED <<seq_vars, journal>>

replay_from_with_progress_call(from_sequence, symbol) ==
    /\ ret = NoRet
    /\ ret' = [op |-> "replay_from_with_progress", from_sequence |-> from_sequence,
               symbol |-> symbol,
               result |-> replay_from_with_progress(journal, from_sequence, symbol)]
    /\ UNCHANGED <<seq_vars, journal>>

replay_range_call(from_sequence, to_sequence) ==
    /\ ret = NoRet
    /\ ret' = [op |-> "replay_range", from_sequence |-> from_sequence,
               to_sequence |-> to_sequence,
               result |-> replay_range(journal, from_sequence, to_sequence)]
    /\ UNCHANGED <<seq_vars, journal>>

verify_call(expected_snapshot, now, listing) ==
    /\ ret = NoRet
    /\ ret' = [op |-> "verify", expected |-> expected_snapshot,
               result |-> verify(journal, expected_snapshot, now, listing)]
    /\ UNCHANGED <<seq_vars, journal>>

ReplayNext ==
    \/ \E event \in JournalEvents : journal_append(event)
    \/ drop_result
    \/ \E from_sequence \in FromSeqs : read_from_call(from_sequence)
    \/ \E from_sequence \in FromSeqs, to_sequence \in ToSeqs :
          read_range_call(from_sequence, to_sequence)
    \/ \E from_sequence \in FromSeqs, symbol \in Symbols :
          replay_from_call(from_sequence, symbol)
    \/ \E from_sequence \in FromSeqs, symbol \in Symbols :
          replay_from_with_progress_call(from_sequence, symbol)
    \/ \E from_sequence \in FromSeqs, to_sequence \in ToSeqs :
          replay_range_call(from_sequence, to_sequence)
    \/ \E expected_snapshot \in ExpectedSnapshots, listing \in Listings :
          verify_call(expected_snapshot, 0, listing)

ReplaySpec == ReplayInit /\ [][ReplayNext]_vars

(***************************************************************************)
(* The callers of snapshots_match: two snapshots, each with its symbol,    *)
(* its timestamp and levels on one side, listed in any order.              *)
(***************************************************************************)
Levels ==
    {[price |-> 1, visible_quantity |-> 1, order_count |-> 1],
     [price |-> 1, visible_quantity |-> 1, order_count |-> 2],
     [price |-> 2, visible_quantity |-> 1, order_count |-> 1],
     [price |-> 2, visible_quantity |-> 2, order_count |-> 1],
     [price |-> 3, visible_quantity |-> 1, order_count |-> 1]}

\* The lists of at most MaxLevels levels. The fields of a snapshot are public
\* and a caller builds it by hand (replay.rs 271-284), so a list may name a
\* price more than once.
LevelLists == UNION {[1..n -> Levels] : n \in 0..MaxLevels}

Snapshots ==
    {[symbol |-> sym, timestamp |-> t, bids |-> q, asks |-> <<>>] :
        sym \in Symbols, t \in SnapshotTimes, q \in LevelLists}
    \cup {[symbol |-> sym, timestamp |-> t, bids |-> <<>>, asks |-> q] :
            sym \in Symbols, t \in SnapshotTimes, q \in LevelLists}

snapshots_match_call(actual, expected) ==
    /\ ret = NoRet
    /\ ret' = [op |-> "snapshots_match", actual |-> actual, expected |-> expected,
               result |-> snapshots_match(actual, expected)]
    /\ UNCHANGED <<seq_vars, journal>>

SnapshotNext ==
    \/ /\ ret = NoRet
       /\ \E actual \in Snapshots, expected \in Snapshots :
             snapshots_match_call(actual, expected)
    \/ drop_result

SnapshotSpec == ReplayInit /\ [][SnapshotNext]_vars

(***************************************************************************)
(* The callers of the book: a book that starts without sizes, gets a tick  *)
(* or a lot size at any time and is handed standard, iceberg and post-only *)
(* orders. Buys come at the prices 1 and 2, sells at 3 and 4, so that the  *)
(* orders of a run never cross.                                            *)
(***************************************************************************)
BookQuantities == {1, 2}

BookOrders(id) ==
    LET At == {<<"Buy", 1>>, <<"Buy", 2>>, <<"Sell", 3>>, <<"Sell", 4>>}
    IN  {Standard(id, at[2], q, at[1]) : at \in At, q \in BookQuantities}
        \cup {PostOnly(id, at[2], q, at[1]) : at \in At, q \in BookQuantities}
        \cup {IcebergOrder(id, at[2], q, h, at[1]) :
                 at \in At, q \in BookQuantities, h \in BookQuantities}

set_tick_size_call(tick) ==
    /\ ret = NoRet
    /\ book' = set_tick_size(book, tick)
    /\ UNCHANGED <<sequence, command_tx, chan, event_listeners, pc, cur, li, seen,
                   slot, handles, sending, nsub, admitted, emitted, applied,
                   outcome, journal, ret>>

set_lot_size_call(lot) ==
    /\ ret = NoRet
    /\ book' = set_lot_size(book, lot)
    /\ UNCHANGED <<sequence, command_tx, chan, event_listeners, pc, cur, li, seen,
                   slot, handles, sending, nsub, admitted, emitted, applied,
                   outcome, journal, ret>>

\* book.add_order(order) with an order of a fresh id.
add_order_call(order) ==
    /\ ret = NoRet
    /\ Cardinality(book.orders) < MaxBookOrders
    /\ LET r == add_order(book, order)
       IN  /\ book' = r.book
           /\ ret' = [op |-> "add_order", order |-> order, result |-> r.outcome,
                      error |-> r.error]
    /\ UNCHANGED <<sequence, command_tx, chan, event_listeners, pc, cur, li, seen,
                   slot, handles, sending, nsub, admitted, emitted, applied,
                   outcome, journal>>

BookNext ==
    \/ \E tick \in TickSizes : set_tick_size_call(tick)
    \/ \E lot \in LotSizes : set_lot_size_call(lot)
    \/ /\ ret = NoRet
       /\ \E order \in BookOrders(Cardinality(book.orders) + 1) : add_order_call(order)
    \/ drop_result

BookSpec == ReplayInit /\ [][BookNext]_vars

\* C1: the i-th event emitted carries sequence_num = i: the numbering starts
\* at 1 and has no gap and no duplicate, however the producers interleave.
C1_StrictMonotoneSequence ==
    /\ \A i \in 1..Len(emitted) : emitted[i].sequence_num = i
    /\ sequence = Len(emitted) + 1

\* Two events are out while one producer is still waiting to send and another
\* holds its handle.
C1_Witness ==
    /\ Len(emitted) = 2
    /\ sending # {}
    /\ IdleProducers > 0

\* C2: every admitted submission gives exactly one event and exactly one
\* receipt, the receipt carries the sequence number of that event, and no
\* admitted command is executed on the book more than once.
C2_ExactlyOnce ==
    /\ Len(emitted) = Len(applied)
    /\ Range(applied) \subseteq Admitted
    /\ \A s \in Admitted :
          /\ Count(applied, s) <= 1
          /\ (s \in InChannel) # (s \in Range(applied))
    /\ \A s \in Submissions :
          slot[s] # NoReceipt =>
              /\ Count(applied, s) = 1
              /\ \A i \in 1..Len(applied) :
                    applied[i] = s => slot[s].sequence_num = emitted[i].sequence_num
    /\ \A i \in 1..Len(applied) :
          applied[i] # cur.reply => slot[applied[i]] # NoReceipt

\* Every submission has been admitted, executed and answered.
C2_Witness ==
    /\ Len(admitted) = MaxCmds
    /\ \A s \in Submissions : slot[s] # NoReceipt

\* C3: the receipt of the i-th command dequeued has sequence_num = i and the
\* result recorded in the event with that sequence number.
C3_ReceiptConsistency ==
    \A i \in 1..Len(applied) :
        slot[applied[i]] # NoReceipt =>
            /\ slot[applied[i]].sequence_num = i
            /\ \E j \in 1..Len(emitted) :
                  emitted[j].sequence_num = slot[applied[i]].sequence_num
            /\ \A j \in 1..Len(emitted) :
                  emitted[j].sequence_num = slot[applied[i]].sequence_num
                      => emitted[j].result = slot[applied[i]].result

\* A rejected command and an accepted one have both been answered.
C3_Witness ==
    \E s, t \in Submissions :
        /\ slot[s] # NoReceipt /\ is_rejected(slot[s].result)
        /\ slot[t] # NoReceipt /\ is_success(slot[t].result)
        /\ slot[s].sequence_num < slot[t].sequence_num

\* C4: every registered listener is called once per event, in emission order,
\* and for one event the listeners are called in registration order: in the
\* middle of a fan-out the listeners before the current one have the event,
\* the others do not have it yet.
C4_ListenerParity ==
    /\ \A k \in 1..Len(event_listeners) :
          seen[event_listeners[k]] =
              IF pc = "listeners" /\ k >= li THEN Front(emitted) ELSE emitted
    /\ \A l \in 1..MaxListeners :
          l \notin Range(event_listeners) => seen[l] = <<>>

\* The fan-out of the last event is between the first and the second
\* listener.
C4_Witness ==
    /\ Len(event_listeners) >= 2
    /\ Len(emitted) = MaxCmds
    /\ pc = "listeners"
    /\ li = 2

\* C5: the timestamps of the events never decrease with the sequence number,
\* whatever the wall clock does.
C5_TimestampNonDecreasing ==
    \A i, j \in 1..Len(emitted) :
        emitted[i].sequence_num < emitted[j].sequence_num
            => emitted[i].timestamp_ns <= emitted[j].timestamp_ns

\* C6: once the producers have dropped every handle and all the commands
\* they queued are processed, the loop ends (wait() completes) or can take
\* the step that ends it.
C6_LoopExitsWhenClosed ==
    (pc = "recv" /\ handles = 0 /\ sending = {} /\ chan = <<>>
        /\ nsub >= 1 /\ Len(applied) = nsub)
        => (WaitCompleted \/ ENABLED LoopStep)

\* C7, the state part: the channel never holds more than its capacity, a
\* producer that waits for room has its command neither in the channel nor
\* executed, and every submission made is waiting, in the channel or executed.
C7_NothingDropped ==
    /\ Len(chan) <= Capacity
    /\ Len(admitted) = Len(chan) + Len(applied)
    /\ Admitted = InChannel \cup Range(applied)
    /\ \A msg \in sending : msg.reply \notin Admitted
    /\ Admitted \cup {msg.reply : msg \in sending} = 1..nsub

\* C7: the channel stays within its capacity, a submitter waits while it is
\* full, and every command the channel admitted is later executed by the
\* running loop: from any state of the running loop a state follows in which
\* all the commands admitted so far have been executed.
C7_Backpressure ==
    /\ []C7_NothingDropped
    /\ (pc # "new") ~> (Admitted \subseteq Range(applied))

\* The channel is full, a producer waits for room and the loop runs.
C7_Witness ==
    /\ Len(chan) = Capacity
    /\ sending # {}
    /\ pc = "recv"

\* C8: the commands are sequenced, applied to the book and shown to the
\* listeners in the order the channel admitted them.
C8_Fifo ==
    /\ Len(applied) <= Len(admitted)
    /\ \A i \in 1..Len(applied) :
          /\ applied[i] = admitted[i].reply
          /\ emitted[i].command = admitted[i].command
          /\ emitted[i].sequence_num = i
    /\ \A i \in 1..Len(chan) : chan[i] = admitted[Len(applied) + i]
    /\ \A l \in Range(event_listeners) :
          \A i \in 1..Len(seen[l]) : seen[l][i].command = admitted[i].command

\* Two commands were in the channel together and both have been executed.
C8_Witness ==
    /\ Len(applied) >= 2
    /\ sending # {}
    /\ \E l \in Range(event_listeners) : Len(seen[l]) >= 2

\* C9: a command whose result is Rejected leaves the book as it was.
C9_RejectedLeavesBook ==
    [][(pc = "recv" /\ pc' \in {"listeners", "reply"} /\ is_rejected(cur'.event.result))
          => book' = book]_vars

\* A cancel of an absent id and an add the book refused have been rejected
\* while the book holds an order.
C9_Witness ==
    /\ book.orders # {}
    /\ \E i, j \in 1..Len(emitted) :
          /\ is_rejected(emitted[i].result) /\ emitted[i].command.tag = "CancelOrder"
          /\ is_rejected(emitted[j].result) /\ emitted[j].command.tag = "AddOrder"

\* C10: a rejected command takes its sequence number, gives an event and a
\* receipt with the Rejected result, and leaves the loop running: the next
\* command gets the next number and is executed on the book as usual.
C10_RejectedDoesNotStop ==
    \A i \in 1..Len(emitted) :
        is_rejected(emitted[i].result) =>
            /\ emitted[i].sequence_num = i
            /\ pc # "done"
            /\ slot[applied[i]] # NoReceipt =>
                  /\ is_rejected(slot[applied[i]].result)
                  /\ slot[applied[i]].sequence_num = i
            /\ pc = "recv" => slot[applied[i]] # NoReceipt
            /\ i < Len(emitted) =>
                  /\ emitted[i + 1].sequence_num = i + 1
                  /\ (emitted[i + 1].command.tag = "AddOrder"
                        /\ (book.tick_size = 0
                              \/ emitted[i + 1].command.order.price % book.tick_size = 0))
                        => emitted[i + 1].result
                              = OrderAdded(emitted[i + 1].command.order.id)

\* A rejected cancel got sequence number 1, the add after it got 2 and
\* succeeded, and both receipts are written.
C10_Witness ==
    /\ Len(emitted) >= 2
    /\ emitted[1].command.tag = "CancelOrder" /\ is_rejected(emitted[1].result)
    /\ emitted[2].command.tag = "AddOrder" /\ emitted[2].result.tag = "OrderAdded"
    /\ slot[applied[1]] = SequencerReceipt_new(1, emitted[1].result)
    /\ slot[applied[2]] = SequencerReceipt_new(2, emitted[2].result)
    /\ book.orders = {emitted[2].command.order}

\* The commands applied to the book one after the other, without the
\* sequencer; a command the book refuses is passed over.
RECURSIVE apply_directly(_, _)
apply_directly(b, commands) ==
    IF commands = <<>> THEN b
    ELSE LET command == Head(commands)
             after == IF command.tag = "AddOrder"
                      THEN add_order(b, command.order).book
                      ELSE cancel_order(b, command.order_id).book
         IN  apply_directly(after, Tail(commands))

\* The (price, visible quantity) pairs of the two sides of a snapshot.
LevelPairs(snapshot) ==
    [bids |-> {<<snapshot.bids[i].price, snapshot.bids[i].visible_quantity>> :
                  i \in 1..Len(snapshot.bids)},
     asks |-> {<<snapshot.asks[i].price, snapshot.asks[i].visible_quantity>> :
                  i \in 1..Len(snapshot.asks)}]

\* The sequence numbers of a journal grow from each event to the next.
Monotone(events) ==
    \A i, j \in 1..Len(events) :
        i < j => events[i].sequence_num < events[j].sequence_num

\* C11: the journal of a listener that appends every event it gets holds, read
\* from sequence 0, exactly its len events, with the sequence numbers
\* 1, 2, ..., len in that order.
C11_JournalOrder ==
    \A l \in Range(event_listeners) :
        LET events == read_from(seen[l], 0)
        IN  /\ Len(events) = len(seen[l])
            /\ \A i \in 1..Len(events) : events[i].sequence_num = i
            /\ events = seen[l]
            /\ len(seen[l]) \in {Len(emitted), Len(emitted) - 1}

\* Two listeners hold a journal of three events each.
C11_Witness ==
    /\ Len(event_listeners) = 2
    /\ \A l \in Range(event_listeners) : len(seen[l]) = 3
    /\ pc = "recv"

\* C12: once a journaling listener has every event emitted so far, verify of
\* its journal against a snapshot of the live book is Ok(true), whenever and
\* in whatever listing the snapshots are taken; so it is against the snapshot
\* of a book that got the same commands directly; and verify against an
\* expected snapshot whose price levels differ from those of the replayed book
\* is Ok(false).
C12_ReplayMatchesLive ==
    \A l \in Range(event_listeners) :
        (seen[l] = emitted /\ emitted # <<>>) =>
            LET direct == apply_directly([book EXCEPT !.orders = {}],
                              [i \in 1..Len(emitted) |-> emitted[i].command])
                replayed == replay_from(seen[l], 0, book.symbol)
            IN  /\ replayed.outcome = "Ok"
                /\ \A now \in SnapshotTimes, live \in Listings, mine \in Listings :
                      /\ verify(seen[l], create_snapshot(book, now, live), 0, mine)
                            = [outcome |-> "Ok", error |-> "None", value |-> TRUE,
                               count |-> Len(seen[l])]
                      /\ verify(seen[l], create_snapshot(direct, now, live), 0, mine).value
                /\ \A expected \in ExpectedSnapshots :
                      LevelPairs(expected)
                            # LevelPairs(create_snapshot(replayed.book, 0, "ascending"))
                        => LET v == verify(seen[l], expected, 0, "ascending")
                           IN  v.outcome = "Ok" /\ ~v.value

\* The journal holds an add the live book refused, an add it took and a
\* cancel it rejected, and the live book holds an order.
C12_Witness ==
    /\ book.orders # {}
    /\ \E l \in Range(event_listeners) :
          /\ seen[l] = emitted
          /\ \E i, j, k \in 1..Len(emitted) :
                /\ emitted[i].command.tag = "AddOrder" /\ is_rejected(emitted[i].result)
                /\ emitted[j].command.tag = "AddOrder" /\ is_success(emitted[j].result)
                /\ emitted[k].command.tag = "CancelOrder"
                      /\ is_rejected(emitted[k].result)

\* C14: replay_from from sequence 0 gives a book with the same snapshot for a
\* journal and for the journal without any of its rejected events: rejected
\* events put in at any positions of a journal whose sequence numbers stay
\* monotone do not change the snapshot of the replayed book.
C14_RejectedSkipped ==
    (ret.op = "replay_from" /\ ret.from_sequence = 0 /\ Monotone(journal)) =>
        \A drop \in SUBSET {i \in 1..Len(journal) : journal[i].result.tag = "Rejected"} :
            LET kept == {i \in 1..Len(journal) : i \notin drop}
                RECURSIVE pick(_)
                pick(i) == IF i > Len(journal) THEN <<>>
                           ELSE IF i \in kept THEN <<journal[i]>> \o pick(i + 1)
                           ELSE pick(i + 1)
                without == pick(1)
                other == replay_from(without, 0, ret.symbol)
            IN  (without # <<>> /\ ret.result.outcome = "Ok") =>
                    /\ other.outcome = "Ok"
                    /\ \A now \in SnapshotTimes, listing \in Listings :
                          snapshots_match(
                              create_snapshot(ret.result.book, now, listing),
                              create_snapshot(other.book, 0, "ascending"))

\* A journal with an add at 1, a rejected cancel of that order at 2 and
\* another add at 3 was replayed from 0: the book has both orders.
C14_Witness ==
    /\ ret.op = "replay_from" /\ ret.from_sequence = 0
    /\ Monotone(journal)
    /\ Len(journal) = 3
    /\ journal[1].command.tag = "AddOrder"
    /\ journal[2].result.tag = "Rejected"
    /\ journal[3].command.tag = "AddOrder"
    /\ Cardinality(ret.result.book.orders) = 2

\* C15: every entry point of the replay engine fails with EmptyJournal on an
\* empty journal and with InvalidSequence, carrying from_seq and the last
\* sequence number, when from_seq is beyond the journal's last sequence
\* number; it has then gone through no event, called no callback, and returns
\* no book and no event list.
C15_PreconditionChecks ==
    /\ ret.op \in {"replay_from", "replay_from_with_progress"} =>
          /\ is_empty(journal) =>
                ret.result = ReplayErr("EmptyJournal", 0, 0, 0, "None", 0, <<>>)
          /\ (~is_empty(journal) /\ ret.from_sequence > last_sequence(journal).value) =>
                ret.result = ReplayErr("InvalidSequence", ret.from_sequence,
                                       last_sequence(journal).value, 0, "None", 0, <<>>)
    /\ ret.op = "replay_range" =>
          /\ is_empty(journal) =>
                /\ ret.result.outcome = "Err" /\ ret.result.error = "EmptyJournal"
                /\ ret.result.events = <<>>
          /\ (~is_empty(journal) /\ ret.from_sequence > last_sequence(journal).value) =>
                /\ ret.result.outcome = "Err" /\ ret.result.error = "InvalidSequence"
                /\ ret.result.from_sequence = ret.from_sequence
                /\ ret.result.last_sequence = last_sequence(journal).value
                /\ ret.result.events = <<>>
    /\ (ret.op = "verify" /\ is_empty(journal)) =>
          ret.result = [outcome |-> "Err", error |-> "EmptyJournal",
                        value |-> FALSE, count |-> 0]

\* A replay from beyond the last sequence number of a journal that holds a
\* later event before its last one has failed with InvalidSequence.
C15_Witness ==
    /\ ret.op = "replay_from_with_progress"
    /\ ret.result.error = "InvalidSequence"
    /\ \E i \in 1..Len(journal) : journal[i].sequence_num >= ret.from_sequence

\* C16: read_from(from_seq) yields every stored event with sequence_num >=
\* from_seq, no other event, each once, in ascending sequence order, whatever
\* appends built the journal.
C16_ReadFromAscending ==
    ret.op = "read_from" =>
        /\ \A e \in Range(journal) \cup Range(ret.events) :
              Count(ret.events, e)
                  = IF e.sequence_num >= ret.from_sequence THEN Count(journal, e) ELSE 0
        /\ \A i, j \in 1..Len(ret.events) :
              i < j => ret.events[i].sequence_num <= ret.events[j].sequence_num

\* C17: read_range(from_seq, to_seq), and replay_range when its checks pass,
\* return exactly the stored events with from_seq <= sequence_num <= to_seq,
\* both bounds included, in ascending order.
C17_ReadRangeInclusive ==
    LET InRange(e) == e.sequence_num >= ret.from_sequence
                        /\ e.sequence_num <= ret.to_sequence
        Exactly(events) ==
            /\ \A e \in Range(journal) \cup Range(events) :
                  Count(events, e) = IF InRange(e) THEN Count(journal, e) ELSE 0
            /\ \A i, j \in 1..Len(events) :
                  i < j => events[i].sequence_num <= events[j].sequence_num
    IN  /\ ret.op = "read_range" => Exactly(ret.events)
        /\ (ret.op = "replay_range" /\ ret.result.outcome = "Ok")
              => Exactly(ret.result.events)

\* C18: snapshots_match is reflexive and symmetric, is false for two different
\* symbols, and does not look at the timestamps.
C18_SnapshotsMatchRelation ==
    ret.op = "snapshots_match" =>
        /\ ret.actual = ret.expected => ret.result
        /\ snapshots_match(ret.actual, ret.actual)
        /\ ret.result = snapshots_match(ret.expected, ret.actual)
        /\ ret.actual.symbol # ret.expected.symbol => ~ret.result
        /\ [ret.actual EXCEPT !.timestamp = ret.expected.timestamp] = ret.expected
              => ret.result
        /\ \A t \in SnapshotTimes :
              snapshots_match([ret.actual EXCEPT !.timestamp = t], ret.expected)
                  = ret.result

\* Two snapshots that differ in their timestamp and in the listing of their
\* two bid levels were compared and match.
C18_Witness ==
    /\ ret.op = "snapshots_match"
    /\ ret.result
    /\ ret.actual.timestamp # ret.expected.timestamp
    /\ Len(ret.actual.bids) = 2
    /\ ret.actual.bids # ret.expected.bids

\* C19: a submission comes back with Shutdown exactly when the channel was
\* closed when it sent (the command never entered the channel) or its reply
\* slot was dropped without a receipt; every other submission that comes back
\* brings the receipt of its own command, and there is no other error.
C19_SubmitShutdown ==
    \A s \in Submissions :
        /\ outcome[s].tag \in {"None", "Borrowing", "Ok", "Shutdown", "Abandoned"}
        /\ outcome[s] = SubmitErr("Shutdown")
              <=> /\ s \in 1..nsub
                  /\ outcome[s] \notin {NoOutcome, Borrowing, Abandoned}
                  /\ \/ s \notin Admitted /\ pc = "done"
                     \/ ReplyDropped(s) /\ slot[s] = NoReceipt
        /\ outcome[s].tag = "Ok"
              => \E i \in 1..Len(applied) :
                    /\ applied[i] = s
                    /\ admitted[i].reply = s
                    /\ emitted[i].command = admitted[i].command
                    /\ outcome[s].receipt
                          = SequencerReceipt_new(emitted[i].sequence_num,
                                                 emitted[i].result)
        /\ (s \in 1..nsub /\ s \notin Admitted /\ outcome[s] \in {NoOutcome, Borrowing})
              => \E msg \in sending : msg.reply = s

\* One submission came back with its receipt, one with Shutdown because its
\* message was destroyed with the channel, one with Shutdown because the
\* channel was closed when it sent.
C19_Witness ==
    \E s, t, u \in Submissions :
        /\ outcome[s].tag = "Ok"
        /\ outcome[t] = SubmitErr("Shutdown") /\ ReplyDropped(t)
        /\ outcome[u] = SubmitErr("Shutdown") /\ u \notin Admitted

\* C20, the state part: the commands are executed in the order the channel
\* admitted them, none is skipped, whether its producer has abandoned it or
\* not: the i-th command executed is the i-th admitted, it has sequence
\* number i, and every listener has its event.
C20_AbandonedInOrder ==
    /\ Len(applied) <= Len(admitted)
    /\ \A i \in 1..Len(applied) :
          /\ applied[i] = admitted[i].reply
          /\ emitted[i].command = admitted[i].command
          /\ emitted[i].sequence_num = i
    /\ pc # "done" => \A i \in 1..Len(chan) : chan[i] = admitted[Len(applied) + i]
    /\ \A k \in 1..Len(event_listeners) :
          seen[event_listeners[k]] =
              IF pc = "listeners" /\ k >= li THEN Front(emitted) ELSE emitted

\* C20: a command whose producer dropped the pending submission after the
\* channel admitted it is dequeued like any other: it takes the next sequence
\* number, is executed on the book and gives an event that goes to every
\* listener; the send of its receipt fails, nothing is stored, and the loop
\* is back at recv() for the next command.
C20_AbandonedStillExecuted ==
    /\ []C20_AbandonedInOrder
    /\ [][(pc = "recv" /\ chan # <<>> /\ pc' \in {"listeners", "reply"}
              /\ outcome[Head(chan).reply] = Abandoned)
            => /\ book' = execute_command(book, Head(chan).command).book
               /\ sequence' = sequence + 1
               /\ cur'.event.sequence_num = sequence
               /\ cur'.event.command = Head(chan).command
               /\ emitted' = Append(emitted, cur'.event)
               /\ applied' = Append(applied, Head(chan).reply)]_vars
    /\ [][(pc = "reply" /\ pc' # "reply" /\ outcome[cur.reply] = Abandoned)
            => /\ pc' = "recv"
               /\ slot' = slot
               /\ UNCHANGED <<book, sequence, chan, emitted, applied, seen>>]_vars

\* An abandoned command was executed and shown to a listener, its slot holds
\* no receipt, and the command after it was executed and answered.
C20_Witness ==
    \E i \in 1..Len(applied) :
        /\ outcome[applied[i]] = Abandoned
        /\ slot[applied[i]] = NoReceipt
        /\ i < Len(applied)
        /\ outcome[applied[i + 1]].tag = "Ok"
        /\ outcome[applied[i + 1]].receipt.sequence_num = i + 1
        /\ \E l \in Range(event_listeners) : Len(seen[l]) >= i + 1

\* The commands of the events of a journal that a replay from from_sequence
\* has to apply, in the order of the journal.
ReplayedCommands(events, from_sequence) ==
    LET kept == SelectSeq(events, LAMBDA e : e.sequence_num >= from_sequence
                                              /\ is_success(e.result))
    IN  [i \in 1..Len(kept) |-> kept[i].command]

\* C21: the book replay_from returns is the fresh book of the symbol after the
\* commands of the non-rejected events with sequence_num >= from_seq, applied
\* in journal order; the events with a smaller sequence number have no
\* effect: every order of the book comes from an add at or after from_seq,
\* and the journal without the smaller events replays to the same book.
C21_ReplayFromMidpoint ==
    (ret.op = "replay_from" /\ ret.result.outcome = "Ok") =>
        LET later == SelectSeq(journal,
                               LAMBDA e : e.sequence_num >= ret.from_sequence)
        IN  /\ ret.result.book
                  = apply_directly(OrderBook_new(ret.symbol),
                                   ReplayedCommands(journal, ret.from_sequence))
            /\ \A o \in ret.result.book.orders :
                  \E i \in 1..Len(journal) :
                      /\ journal[i].command = AddOrder(o)
                      /\ journal[i].sequence_num >= ret.from_sequence
                      /\ is_success(journal[i].result)
            /\ replay_from(later, ret.from_sequence, ret.symbol).book = ret.result.book

\* A journal with an add at 1, another add at 2 and a rejected cancel at 3 was
\* replayed from 2: the book holds the second order only, one level.
C21_Witness ==
    /\ ret.op = "replay_from" /\ ret.from_sequence = 2
    /\ ret.result.outcome = "Ok"
    /\ Len(journal) = 3
    /\ journal[1].sequence_num = 1 /\ journal[1].command.tag = "AddOrder"
    /\ journal[2].sequence_num = 2 /\ journal[2].command.tag = "AddOrder"
    /\ journal[1].command.order # journal[2].command.order
    /\ ret.result.book.orders = {journal[2].command.order}
    /\ Len(create_snapshot(ret.result.book, 0, "ascending").bids)
          + Len(create_snapshot(ret.result.book, 0, "ascending").asks) = 1
\* C22: a replay that applies a successful add of an order and, later in the
\* journal, a successful cancel of it with no add of it after the cancel,
\* returns a book without that order; the journal add(X) at 1, cancel(X) at 2
\* replays to an empty book with last sequence 2.
C22_CancelRoundTrip ==
    (ret.op = "replay_from" /\ ret.result.outcome = "Ok") =>
        LET kept == {i \in 1..Len(journal) :
                        /\ journal[i].sequence_num >= ret.from_sequence
                        /\ is_success(journal[i].result)}
            Adds(i, id) == /\ journal[i].command.tag = "AddOrder"
                           /\ journal[i].command.order.id = id
        IN  /\ \A i \in kept, j \in kept :
                  (/\ i < j
                   /\ journal[i].command.tag = "AddOrder"
                   /\ journal[j].command = CancelOrder(journal[i].command.order.id)
                   /\ \A k \in kept : k > j => ~Adds(k, journal[j].command.order_id))
                  => \A o \in ret.result.book.orders :
                         o.id # journal[j].command.order_id
            /\ (/\ Len(journal) = 2
                /\ journal[1].sequence_num = 1 /\ journal[2].sequence_num = 2
                /\ journal[1].command.tag = "AddOrder"
                /\ is_success(journal[1].result)
                /\ journal[2] = SequencerEvent_new(2, 0,
                                    CancelOrder(journal[1].command.order.id),
                                    OrderCancelled(journal[1].command.order.id)))
                => /\ ret.result.book.orders = {}
                   /\ ret.result.last_seq = 2

\* The journal add(X) at 1, cancel(X) at 2 was replayed from the beginning.
C22_Witness ==
    /\ ret.op = "replay_from" /\ ret.from_sequence = 0
    /\ ret.result.outcome = "Ok"
    /\ Len(journal) = 2
    /\ journal[1].sequence_num = 1 /\ journal[1].command.tag = "AddOrder"
    /\ journal[2].sequence_num = 2
    /\ journal[2].command = CancelOrder(journal[1].command.order.id)
    /\ journal[2].result = OrderCancelled(journal[1].command.order.id)
    /\ ret.result.book.orders = {} /\ ret.result.last_seq = 2
\* C23: a replay whose checks pass fails exactly when the book refuses the add
\* of one of the non-rejected events it goes through; it then returns
\* OrderBookError with the sequence number of the first such event and the
\* error of the book, no book and no last sequence, and it has gone through
\* the events before that one only.
C23_RefusedAddAborts ==
    (/\ ret.op \in {"replay_from", "replay_from_with_progress"}
     /\ ~is_empty(journal)
     /\ ret.from_sequence <= last_sequence(journal).value) =>
        LET later == SelectSeq(journal,
                               LAMBDA e : e.sequence_num >= ret.from_sequence)
            Before(k) == apply_directly(OrderBook_new(ret.symbol),
                            ReplayedCommands(SubSeq(later, 1, k - 1),
                                             ret.from_sequence))
            Refused(k) == /\ is_success(later[k].result)
                          /\ later[k].command.tag = "AddOrder"
                          /\ add_order(Before(k), later[k].command.order).outcome = "Err"
            bad == {k \in 1..Len(later) : Refused(k)}
        IN  IF bad = {} THEN ret.result.outcome = "Ok"
            ELSE LET k == CHOOSE x \in bad : \A y \in bad : x <= y
                 IN  /\ ret.result.outcome = "Err"
                     /\ ret.result.error = "OrderBookError"
                     /\ ret.result.sequence_num = later[k].sequence_num
                     /\ ret.result.source
                           = add_order(Before(k), later[k].command.order).error
                     /\ ret.result.book = NoBook
                     /\ ret.result.last_seq = 0
                     /\ ret.result.count = k - 1
                     /\ ret.op = "replay_from_with_progress" =>
                           ret.result.calls
                               = [i \in 1..(k - 1) |-> <<i, later[i].sequence_num>>]

\* A journal with an add the book takes, then an add it refuses, then another
\* add: the replay failed at the second event.
C23_Witness ==
    /\ ret.op = "replay_from_with_progress" /\ ret.from_sequence = 0
    /\ Len(journal) = 3
    /\ \A i \in 1..3 : journal[i].command.tag = "AddOrder" /\ journal[i].sequence_num = i
    /\ journal[1].command.order \in JournalOrders
    /\ journal[2].command.order \in RefusedOrders
    /\ journal[3].command.order \in JournalOrders
    /\ ret.result.error = "OrderBookError" /\ ret.result.sequence_num = 2
    /\ ret.result.book = NoBook
    /\ Len(ret.result.calls) = 1
C26_JournalState ==
    /\ is_empty(journal) <=> journal = InMemoryJournal_new
    /\ is_empty(journal) <=> len(journal) = 0
    /\ last_sequence(journal) = None <=> is_empty(journal)
    /\ ret.op = "append" =>
          /\ ret.result = "Ok"
          /\ ~is_empty(journal)
          /\ journal[len(journal)] = ret.event
          /\ last_sequence(journal) = Some(ret.event.sequence_num)

MultipleOf(n, size) == \E m \in 0..n : m * size = n

\* The book takes the order as far as its tick and lot size go.
SizesAllow(b, order) ==
    /\ b.tick_size # 0 => MultipleOf(order.price, b.tick_size)
    /\ b.lot_size # 0 =>
          /\ MultipleOf(order.quantity, b.lot_size)
          /\ order.kind = "IcebergOrder" => MultipleOf(order.hidden_quantity, b.lot_size)

\* C27: add_order returns Ok, and the order rests in the book, exactly when
\* the price is a multiple of the tick size the book has at that time, if it
\* has one, and the quantity, for an iceberg order the visible and the hidden
\* one, is a multiple of its lot size, if it has one; a refused order leaves
\* the book as it was; set_tick_size and set_lot_size keep the resting
\* orders.
C27_TickAndLotValidation ==
    /\ [][(ret = NoRet /\ ret'.op = "add_order") =>
             /\ ret'.result = "Ok" <=> SizesAllow(book, ret'.order)
             /\ ret'.result = "Ok" => book' = [book EXCEPT !.orders = @ \cup {ret'.order}]
             /\ ret'.result = "Err" =>
                   /\ book' = book
                   /\ ret'.error = IF MultipleOf(ret'.order.price, book.tick_size)
                                       \/ book.tick_size = 0
                                   THEN "InvalidLotSize" ELSE "InvalidTickSize"]_vars
    /\ [][(book'.tick_size # book.tick_size \/ book'.lot_size # book.lot_size) =>
             /\ book'.orders = book.orders
             /\ ret' = NoRet]_vars

\* A book took an order whose price and quantity are odd, then got the tick
\* size 2 and the lot size 2, and has refused an iceberg order at an even
\* price that shows 2 and hides 1.
C27_Witness ==
    /\ book.tick_size = 2 /\ book.lot_size = 2
    /\ \E o \in book.orders : o.price = 1 /\ o.quantity = 1
    /\ ret.op = "add_order"
    /\ ret.order.kind = "IcebergOrder" /\ ret.order.side = "Sell"
    /\ ret.order.price = 4 /\ ret.order.quantity = 2 /\ ret.order.hidden_quantity = 1
    /\ ret.result = "Err" /\ ret.error = "InvalidLotSize"
\* C28: while the loop calls the listeners of an event, the book already has
\* the command and the reply slot of the command is still empty; the loop is
\* at the reply only when every listener has every event; hence whenever a
\* reply slot holds the receipt of sequence n, n commands at least were
\* executed, the book is the initial book after the commands of all events
\* emitted, and every listener has seen the events 1..n, in that order.
C28_ApplyThenListenersThenReceipt ==
    LET direct == apply_directly([book EXCEPT !.orders = {}],
                                 [i \in 1..Len(emitted) |-> emitted[i].command])
    IN  /\ pc = "listeners" =>
              /\ cur.event = emitted[Len(emitted)]
              /\ applied[Len(applied)] = cur.reply /\ Len(applied) = Len(emitted)
              /\ book = direct
              /\ slot[cur.reply] = NoReceipt
              /\ \A i \in 1..Len(event_listeners) :
                    seen[listener_at(event_listeners, i)]
                        = IF i < li THEN emitted ELSE Front(emitted)
        /\ pc = "reply" =>
              /\ cur.event = emitted[Len(emitted)]
              /\ book = direct
              /\ slot[cur.reply] = NoReceipt
              /\ \A l \in Range(event_listeners) : seen[l] = emitted
        /\ \A s \in Submissions :
              slot[s] # NoReceipt =>
                  LET n == slot[s].sequence_num
                  IN  /\ n \in 1..Len(emitted)
                      /\ Len(applied) >= n /\ applied[n] = s
                      /\ book = direct
                      /\ \A l \in Range(event_listeners) :
                            /\ Len(seen[l]) >= n
                            /\ SubSeq(seen[l], 1, n) = SubSeq(emitted, 1, n)

\* The producer of the second command holds its receipt, and both listeners
\* have the two events, while the loop is at the listeners of a third one.
C28_Witness ==
    /\ Len(event_listeners) = 2
    /\ \E s \in Submissions : slot[s] # NoReceipt /\ slot[s].sequence_num = 2
    /\ pc = "listeners" /\ li = 2
    /\ Len(emitted) = 3
    /\ book.orders # {}
\* C29: a call of Sequencer::submit that is pending comes to an end: it
\* returns a receipt or Shutdown (or its caller drops it).
C29_SubmitReturns ==
    \A s \in Submissions : (outcome[s] = Borrowing) ~> (outcome[s] # Borrowing)
C31_LiveAdd ==
    /\ [](/\ \A i \in 1..Len(emitted) : emitted[i].result.tag # "TradeExecuted"
          /\ \A s \in Submissions : slot[s].result.tag # "TradeExecuted")
    /\ [][(pc = "recv" /\ chan # <<>> /\ emitted' # emitted
              /\ Head(chan).command.tag = "AddOrder")
            => LET order == Head(chan).command.order
                   result == emitted'[Len(emitted')].result
               IN  IF SizesAllow(book, order) /\ order.id \notin RefusedIds
                   THEN /\ result = OrderAdded(order.id)
                        /\ book'.orders = book.orders \cup {order}
                   ELSE /\ result.tag = "Rejected"
                        /\ result.error = add_order(book, order).error
                        /\ result.error # "None"
                        /\ book' = book]_vars

\* A book with a tick size refused an order at an odd price and took the
\* next one, and both producers hold their receipts.
C31_Witness ==
    /\ Len(emitted) >= 2
    /\ emitted[1].command.tag = "AddOrder"
    /\ emitted[1].result = Rejected("InvalidTickSize")
    /\ emitted[2].command.tag = "AddOrder"
    /\ emitted[2].result = OrderAdded(emitted[2].command.order.id)
    /\ slot[applied[1]].result = Rejected("InvalidTickSize")
    /\ slot[applied[2]].result.tag = "OrderAdded"
    /\ book.orders = {emitted[2].command.order}
\* C32: once spawned the sequencer cannot be spawned again; the channel loses
\* a message only to the loop's recv(), which takes its oldest one; the book
\* changes only in the step in which the loop, with no other command under
\* way, executes the message it has just received, and the change is the
\* whole effect of that one command.
C32_SingleConsumer ==
    /\ [](pc # "new" => ~ENABLED spawn)
    /\ [][pc # "new" => pc' # "new"]_vars
    /\ [][book' # book =>
             /\ pc = "recv" /\ cur = NoCur /\ chan # <<>>
             /\ chan' = Tail(chan)
             /\ book' = execute_command(book, Head(chan).command).book
             /\ applied' = Append(applied, Head(chan).reply)
             /\ pc' \in {"listeners", "reply"}]_vars
    /\ [][chan' # chan =>
             \/ /\ pc = "recv" /\ cur = NoCur /\ chan # <<>>
                /\ chan' = Tail(chan)
                /\ applied' = Append(applied, Head(chan).reply)
             \/ /\ \E msg \in Range(chan') : chan' = Append(chan, msg)
                /\ applied' = applied /\ book' = book]_vars

\* Two producers had a command each in the channel at the same time and the
\* loop has executed both, one after the other.
C32_Witness ==
    /\ handles = 2
    /\ Len(applied) = 2 /\ Len(admitted) >= 2
    /\ Cardinality(book.orders) = 2
    /\ pc = "recv" /\ cur = NoCur
\* C33: a command for which the clock failed gets the timestamp 0, the next
\* sequence number, its execution on the book and its event like any other;
\* the event then goes to every listener and the receipt into the reply
\* slot, and the loop is back at recv().
C33_ClockFailure ==
    /\ [](cur.clock < 0 => cur.event.timestamp_ns = 0 /\ pc \in {"listeners", "reply"})
    /\ [](\A i \in 1..Len(emitted) : emitted[i].timestamp_ns >= 0)
    /\ [][(pc = "recv" /\ cur'.clock < 0) =>
             LET x == execute_command(book, Head(chan).command)
             IN  /\ cur'.event = SequencerEvent_new(sequence, 0, Head(chan).command,
                                                    x.result)
                 /\ sequence' = sequence + 1
                 /\ book' = x.book
                 /\ emitted' = Append(emitted, cur'.event)]_vars
    /\ [][(pc = "reply" /\ cur.clock < 0 /\ pc' # "reply") =>
             /\ slot'[cur.reply] = SequencerReceipt_new(cur.event.sequence_num,
                                                        cur.event.result)
             /\ \A l \in Range(event_listeners) :
                   seen[l] # <<>> /\ seen[l][Len(seen[l])] = cur.event
             /\ pc' = "recv"]_vars

\* The clock failed for the second command: its event has the timestamp 0
\* and the sequence number 2, a listener has it and the producer has its
\* receipt, after an event with a later timestamp.
C33_Witness ==
    /\ Len(emitted) >= 2
    /\ emitted[1].timestamp_ns > 0
    /\ emitted[2].timestamp_ns = 0 /\ emitted[2].sequence_num = 2
    /\ \E l \in Range(event_listeners) : Len(seen[l]) >= 2 /\ seen[l][2] = emitted[2]
    /\ slot[applied[2]].sequence_num = 2

\* The number of levels of a list with a given (price, visible quantity) pair.
PairCount(q, pair) ==
    Cardinality({i \in 1..Len(q) : <<q[i].price, q[i].visible_quantity>> = pair})

\* Two lists hold the same (price, visible quantity) pairs, each as often.
SamePairs(a, e) ==
    \A pair \in {<<l.price, l.visible_quantity>> : l \in Levels} :
        PairCount(a, pair) = PairCount(e, pair)

\* C34: for two compared snapshots with equal symbols, snapshots_match is true
\* exactly when the bids of both hold the same (price, visible quantity)
\* pairs and the asks of both do; listing the levels of a snapshot in the
\* reverse order, or changing the order counts, does not change the result.
C34_SnapshotsMatchPairs ==
    (ret.op = "snapshots_match" /\ ret.actual.symbol = ret.expected.symbol) =>
        /\ ret.result <=> /\ SamePairs(ret.actual.bids, ret.expected.bids)
                          /\ SamePairs(ret.actual.asks, ret.expected.asks)
        /\ ret.result = snapshots_match([ret.actual EXCEPT !.bids = reversed(@),
                                                           !.asks = reversed(@)],
                                        ret.expected)

\* C35: a replay_from that returns Ok returns the sequence number of the last
\* event it applied to the book: the last stored event at or after from_seq
\* whose result is not Rejected.
C35_LastAppliedSequence ==
    (ret.op = "replay_from" /\ ret.result.outcome = "Ok") =>
        LET replayed == SelectSeq(read_from(journal, ret.from_sequence),
                                  LAMBDA e : e.result.tag # "Rejected")
        IN  /\ replayed # <<>>
            /\ ret.result.last_seq = replayed[Len(replayed)].sequence_num

\* C36: sequence numbers are assigned when the loop takes a command out of
\* the channel. A submission dropped before the channel admitted it is never
\* admitted later, is neither in the channel nor in line for it, is never
\* executed and gets no receipt; dropping it changes neither the book, the
\* counter, the channel nor the events; and the events built are numbered
\* 1, 2, ... without a gap, the counter being one past their number.
C36_AbandonedBeforeAdmission ==
    /\ [](\A s \in Submissions :
            (outcome[s] = Abandoned /\ s \notin Admitted) =>
                /\ s \notin InChannel
                /\ \A msg \in sending : msg.reply # s
                /\ s \notin Range(applied)
                /\ cur.reply # s
                /\ slot[s] = NoReceipt)
    /\ [](/\ sequence = Len(emitted) + 1
          /\ Len(emitted) = Len(applied)
          /\ \A i \in 1..Len(emitted) : emitted[i].sequence_num = i)
    /\ [][\A s \in Submissions :
            (outcome'[s] = Abandoned /\ s \notin Admitted) =>
                /\ s \notin Admitted'
                /\ outcome[s] # Abandoned
                      => UNCHANGED <<book, sequence, chan, admitted, emitted, applied>>]_vars

\* A submission that waited for room was dropped; the two commands the
\* channel held were then executed as numbers 1 and 2 and the counter is 3.
C36_Witness ==
    /\ \E s \in Submissions :
          /\ outcome[s] = Abandoned /\ s \notin Admitted
          /\ s \in 1..nsub
          /\ \A t \in 1..nsub : t # s => t \in Range(applied)
    /\ Len(emitted) = 2
    /\ emitted[2].sequence_num = 2
    /\ sequence = 3
    /\ pc = "recv"

\* C37: the commands sent through a sender() handle before spawn stay in the
\* channel in send order and nothing is executed, numbered or changed in the
\* book before spawn; afterwards the loop executes the admitted commands in
\* the order the channel took them, as numbers 1, 2, ..., and every admitted
\* command is either executed or still in the channel.
C37_SentBeforeSpawn ==
    /\ [](pc = "new" => /\ chan = admitted
                        /\ applied = <<>> /\ emitted = <<>>
                        /\ sequence = 1)
    /\ [](/\ Len(applied) <= Len(admitted)
          /\ Len(emitted) = Len(applied)
          /\ \A i \in 1..Len(applied) :
                /\ applied[i] = admitted[i].reply
                /\ emitted[i].sequence_num = i
                /\ emitted[i].command = admitted[i].command
          /\ chan = SubSeq(admitted, Len(applied) + 1, Len(admitted)))
    /\ [][pc = "new" => book' = book]_vars

\* Two commands were sent before spawn and none after; the loop has executed
\* both, the first as number 1 and the second as number 2.
C37_Witness ==
    /\ pc = "recv"
    /\ nsub = 2 /\ sending = {}
    /\ applied = <<1, 2>>
    /\ emitted[1].sequence_num = 1 /\ emitted[2].sequence_num = 2
    /\ emitted[1].command # emitted[2].command

C39_InvalidSequenceOnlyPastEnd ==
    (/\ ret.op \in {"replay_from", "replay_range"}
     /\ \E i \in 1..Len(journal) : journal[i].sequence_num >= ret.from_sequence) =>
        ~(ret.result.outcome = "Err" /\ ret.result.error = "InvalidSequence")

====
